---- MODULE Spec2Model ----
(***************************************************************************)
(* Model of the windLA wind-data route (GET of the NOAA AGXC1 pipeline):   *)
(* the tabular probe, the fallback to the human-readable report, the two   *)
(* parsers and the unit / sentinel handling; of the wind extraction of the *)
(* NOAA observations route; and of the wind-data fetch of the dashboard.   *)
(*                                                                         *)
(* Texts are sequences of one-character strings, so that trim, split,      *)
(* includes, the regular expressions, parseFloat and padStart are computed *)
(* as the JavaScript computes them.  JavaScript numbers are carried in     *)
(* tenths (18.0 is 180); a number is a record [nan, v], NaN being          *)
(* [nan |-> TRUE, v |-> 0].  The degree sign is the character "deg".       *)
(***************************************************************************)
EXTENDS Integers, Sequences, FiniteSets, TLC

VARIABLES pc, tabularResponse, narrativeResponse, isTabularFormat, rawData,
          dataSource, result,       \* one invocation of the wind-data GET
          parserInput, parserOutput, \* the human-readable parser on its own
          properties, extracted,     \* extractWindData of the observations route
          calls,                     \* two invocations of the wind-data GET
          page                       \* the dashboard's wind-data state

getVars == <<pc, tabularResponse, narrativeResponse, isTabularFormat, rawData,
             dataSource, result>>

(* What one invocation of the wind-data GET never touches. *)
elsewhere == <<parserInput, parserOutput, properties, extracted, calls, page>>

vars == <<getVars, elsewhere>>

-----------------------------------------------------------------------------
(* Characters and strings                                                  *)

Digits == {"0", "1", "2", "3", "4", "5", "6", "7", "8", "9"}

IsDigit(c) == c \in Digits

(* The characters of \s that the texts of the model hold. *)
Whitespace == {" ", "\t", "\n", "\r"}

IsWhitespace(c) == c \in Whitespace

DigitValue(c) ==
  CASE c = "0" -> 0 [] c = "1" -> 1 [] c = "2" -> 2 [] c = "3" -> 3
    [] c = "4" -> 4 [] c = "5" -> 5 [] c = "6" -> 6 [] c = "7" -> 7
    [] c = "8" -> 8 [] c = "9" -> 9

SetMin(S) == CHOOSE m \in S : \A n \in S : m <= n

(* The k-th smallest element of a finite set of integers. *)
Nth(S, k) == CHOOSE c \in S : Cardinality({d \in S : d < c}) = k - 1

(* String.prototype.trim *)
Trim(s) ==
  LET n     == Len(s)
      first == CHOOSE i \in 1..(n + 1) :
                 /\ \A j \in 1..(i - 1) : IsWhitespace(s[j])
                 /\ i <= n => ~IsWhitespace(s[i])
      last  == CHOOSE i \in 0..n :
                 /\ \A j \in (i + 1)..n : IsWhitespace(s[j])
                 /\ i >= 1 => ~IsWhitespace(s[i])
  IN  SubSeq(s, first, last)

(* String.prototype.split('\n'): the segments between the newlines; the    *)
(* empty string splits into one empty segment.                             *)
SplitLines(s) ==
  LET cuts == {0, Len(s) + 1} \cup {i \in 1..Len(s) : s[i] = "\n"}
  IN  [k \in 1..(Cardinality(cuts) - 1) |->
         SubSeq(s, Nth(cuts, k) + 1, Nth(cuts, k + 1) - 1)]

(* String.prototype.split(/\s+/): the maximal runs of non-whitespace, with *)
(* an empty first part when the string starts with whitespace and an empty *)
(* last part when it ends with whitespace.                                 *)
SplitWhitespace(s) ==
  LET n      == Len(s)
      starts == {i \in 1..n : ~IsWhitespace(s[i]) /\ (i = 1 \/ IsWhitespace(s[i - 1]))}
      ends   == {i \in 1..n : ~IsWhitespace(s[i]) /\ (i = n \/ IsWhitespace(s[i + 1]))}
      runs   == [k \in 1..Cardinality(starts) |-> SubSeq(s, Nth(starts, k), Nth(ends, k))]
      lead   == IF n > 0 /\ IsWhitespace(s[1]) THEN << << >> >> ELSE << >>
      trail  == IF n > 0 /\ IsWhitespace(s[n]) THEN << << >> >> ELSE << >>
  IN  IF n = 0 THEN << << >> >> ELSE lead \o runs \o trail

(* Whether sub occurs in s at position i. *)
MatchesAt(s, i, sub) ==
  /\ i >= 1
  /\ i + Len(sub) - 1 <= Len(s)
  /\ SubSeq(s, i, i + Len(sub) - 1) = sub

(* String.prototype.includes *)
Includes(s, sub) == \E i \in 1..(Len(s) + 1) : MatchesAt(s, i, sub)

(* String.prototype.padStart(2, '0') *)
PadStart2(s) == IF Len(s) >= 2 THEN s ELSE IF Len(s) = 1 THEN <<"0">> \o s ELSE <<"0", "0">>

(* The last position of the run of characters of class cls that starts at  *)
(* from (from - 1 when s[from] is not in the class).                       *)
RunEnd(s, from, cls) ==
  LET stops == {j \in from..Len(s) : s[j] \notin cls}
  IN  IF stops = {} THEN Len(s) ELSE SetMin(stops) - 1

RECURSIVE DigitsValue(_)
DigitsValue(ds) ==
  IF ds = << >> THEN 0
  ELSE 10 * DigitsValue(SubSeq(ds, 1, Len(ds) - 1)) + DigitValue(ds[Len(ds)])

-----------------------------------------------------------------------------
(* JavaScript numbers, in tenths                                           *)

NaN == [nan |-> TRUE, v |-> 0]

Num(v) == [nan |-> FALSE, v |-> v]

(* parseFloat: optional sign, digits, optional fraction; the longest       *)
(* numeric prefix, NaN when there is none (and for undefined).  The value  *)
(* is carried in tenths: the tokens of the model have at most one          *)
(* fractional digit and no exponent.                                       *)
parseFloat(s) ==
  LET sign    == IF Len(s) >= 1 /\ s[1] \in {"+", "-"} THEN 1 ELSE 0
      intEnd  == RunEnd(s, sign + 1, Digits)
      hasDot  == intEnd < Len(s) /\ s[intEnd + 1] = "."
      fracEnd == IF hasDot THEN RunEnd(s, intEnd + 2, Digits) ELSE intEnd
      nInt    == intEnd - sign
      nFrac   == IF hasDot THEN fracEnd - (intEnd + 1) ELSE 0
      whole   == DigitsValue(SubSeq(s, sign + 1, intEnd))
      tenth   == IF nFrac >= 1 THEN DigitValue(s[intEnd + 2]) ELSE 0
      mag     == 10 * whole + tenth
  IN  IF nInt + nFrac = 0 THEN NaN
      ELSE Num(IF sign = 1 /\ s[1] = "-" THEN 0 - mag ELSE mag)

(* parseInt of a run of digits *)
parseInt(s) == Num(10 * DigitsValue(s))

(* x || 0 *)
OrZero(x) == IF x.nan \/ x.v = 0 THEN Num(0) ELSE x

(* Math.round(x * 1.944 * 10) / 10 for x in tenths: Math.round rounds      *)
(* half up, and no product t * 1.944 falls on a half.                      *)
MsToKnots(x) == IF x.nan THEN NaN ELSE Num((x.v * 1944 + 500) \div 1000)

(* Math.round((c * 9/5 + 32) * 10) / 10 for c in tenths *)
CelsiusToFahrenheit(x) == IF x.nan THEN NaN ELSE Num((18 * x.v + 3200 + 5) \div 10)

(* a >= k and a === k on numbers; comparisons with NaN are false *)
Ge(x, k) == ~x.nan /\ x.v >= k

Eq(x, k) == ~x.nan /\ x.v = k

-----------------------------------------------------------------------------
(* The texts the two NOAA endpoints can answer with                        *)

HeaderLine ==
  <<"#", "Y", "Y", " ", "M", "M", " ", "D", "D", " ", "h", "h", " ", "m",
  "m", " ", "W", "D", "I", "R", " ", "W", "S", "P", "D", " ", "G", "S",
  "T", " ", "W", "V", "H", "T", " ", "D", "P", "D", " ", "A", "P", "D",
  " ", "M", "W", "D", " ", "P", "R", "E", "S", " ", "A", "T", "M", "P",
  " ", "W", "T", "M", "P", " ", "D", "E", "W", "P", " ", "V", "I", "S",
  " ", "T", "I", "D", "E">>

LineStation ==
  <<"S", "t", "a", "t", "i", "o", "n", " ", "A", "G", "X", "C", "1">>

LineGmt ==
  <<"2", "3", "4", "8", " ", "G", "M", "T", " ", "1", "1", "/", "1", "6",
  "/", "2", "5">>

LineGmtShort ==
  <<"0", "9", "0", "5", " ", "G", "M", "T", " ", "1", "/", "6", "/", "2",
  "5">>

LineGmtNote ==
  <<"T", "i", "m", "e", "s", " ", "a", "r", "e", " ", "G", "M", "T">>

LineWind ==
  <<"W", "i", "n", "d", ":", " ", "S", " ", "(", "1", "8", "0", "deg", ")",
  ",", " ", "8", ".", "0", " ", "k", "t">>

LineGust ==
  <<"G", "u", "s", "t", ":", " ", "1", "4", ".", "0", " ", "k", "t">>

DirTokens ==
  { <<"1", "8", "0">>,
    <<"9", "9">>,
    <<"9", "9", "9">>,
    <<"4", "0", "0">>,
    <<"-", "1", "0">>,
    <<"M", "M">>,
    <<"0">> }

SpeedTokens ==
  { <<"4", ".", "1">>,
    <<"9", ".", "8">>,
    <<"9", "9", ".", "0">>,
    <<"6", "0", ".", "0">>,
    <<"-", "5", ".", "0">>,
    <<"M", "M">>,
    <<"0", ".", "0">> }

GustTokens ==
  { <<"7", ".", "2">>,
    <<"9", ".", "8">>,
    <<"9", "9", ".", "0">>,
    <<"M", "M">> }

PressureTokens ==
  { <<"1", "0", "1", "5", ".", "0">>,
    <<"9", "9", "9", "9", ".", "0">>,
    <<"M", "M">> }

AirTempTokens ==
  { <<"1", "8", ".", "0">>,
    <<"0", ".", "0">>,
    <<"9", "9", "9", ".", "0">>,
    <<"6", "0", "0", ".", "0">>,
    <<"-", "5", ".", "0">>,
    <<"M", "M">> }

WaterTempTokens ==
  { <<"1", "6", ".", "5">>,
    <<"0", ".", "0">>,
    <<"9", "9", "9", ".", "0">> }

TokYear == <<"2", "0", "2", "5">>
TokMonth == <<"1", "1">>
TokDay == <<"1", "6">>
TokHour == <<"2", "3">>
TokMinute == <<"5", "0">>
TokWvht == <<"2", ".", "3">>
TokDpd == <<"7">>
TokApd == <<"5">>
TokMwd == <<"1", "9", "0">>
TokDewp == <<"1", "0">>
TokVis == <<"1", "0">>
TokTide == <<"M", "M">>
StrGMT == <<"G", "M", "T">>
StrWind == <<"W", "i", "n", "d", ":">>
StrGust == <<"G", "u", "s", "t", ":">>
StrKt == <<"k", "t">>

(* The base observation: scenario A of the format comment. *)
BaseFields ==
  [dir |-> <<"1", "8", "0">>, wspd |-> <<"4", ".", "1">>, gst |-> <<"7", ".", "2">>,
   pres |-> <<"1", "0", "1", "5", ".", "0">>, atmp |-> <<"1", "8", ".", "0">>,
   wtmp |-> <<"1", "6", ".", "5">>]

(* The observations tried: every wind reading with the base pressure and   *)
(* temperatures, and every pressure / temperature reading with the base    *)
(* wind.                                                                   *)
FieldCases ==
  {[BaseFields EXCEPT !.dir = d, !.wspd = w, !.gst = g] :
      d \in DirTokens, w \in SpeedTokens, g \in GustTokens}
  \cup
  {[BaseFields EXCEPT !.pres = p, !.atmp = a, !.wtmp = w] :
      p \in PressureTokens, a \in AirTempTokens, w \in WaterTempTokens}

(* YYYY MM DD hh mm WDIR WSPD GST WVHT DPD APD MWD PRES ATMP WTMP DEWP VIS TIDE *)
Columns(f) ==
  <<TokYear, TokMonth, TokDay, TokHour, TokMinute, f.dir, f.wspd, f.gst,
    TokWvht, TokDpd, TokApd, TokMwd, f.pres, f.atmp, f.wtmp, TokDewp, TokVis,
    TokTide>>

RECURSIVE JoinWith(_, _)
JoinWith(parts, sep) ==
  IF Len(parts) = 0 THEN << >>
  ELSE IF Len(parts) = 1 THEN parts[1]
  ELSE parts[1] \o sep \o JoinWith(Tail(parts), sep)

(* A data row holding the first n columns of an observation. *)
DataLine(f, n) == JoinWith(SubSeq(Columns(f), 1, n), <<" ">>)

(* A file of the lines given, each ended by a newline. *)
TextOf(lines) == IF Len(lines) = 0 THEN << >> ELSE JoinWith(lines, <<"\n">>) \o <<"\n">>

MaxHeaderLines == 2

MaxNarrativeLines == 3

Headers(h) == [k \in 1..h |-> HeaderLine]

(* Column counts of rows the probe refuses, of rows it lets through but the *)
(* parser refuses, and of rows the parser takes.                            *)
RefusedCounts == {5, 10}

ShortCounts == {11, 12}

FullCounts == {13, 14, 15, 18}

TabularTexts ==
  {<< >>}
  \cup {TextOf(<<DataLine(BaseFields, n)>>) : n \in {10, 18}}
  \cup {TextOf(Headers(h) \o <<DataLine(BaseFields, n)>>) :
          h \in 1..MaxHeaderLines, n \in RefusedCounts \cup ShortCounts}
  \cup {TextOf(Headers(h) \o <<DataLine(f, n)>>) :
          h \in 1..MaxHeaderLines, f \in FieldCases, n \in FullCounts}

NarrativeLines ==
  {LineStation, LineGmt, LineGmtShort, LineGmtNote, LineWind, LineGust}

RECURSIVE SeqsUpTo(_, _)
SeqsUpTo(S, n) ==
  IF n = 0 THEN {<< >>}
  ELSE LET shorter == SeqsUpTo(S, n - 1)
       IN  shorter \cup {Append(q, x) : q \in {r \in shorter : Len(r) = n - 1}, x \in S}

NarrativeTexts == {TextOf(ls) : ls \in SeqsUpTo(NarrativeLines, MaxNarrativeLines)}

(* What a fetch can come to: the promise rejects, or a response arrives    *)
(* whose ok flag is false or true, with its body.                          *)
Pending == [kind |-> "pending", ok |-> FALSE, body |-> << >>]

Rejected == [kind |-> "rejected", ok |-> FALSE, body |-> << >>]

NotOk(text) == [kind |-> "response", ok |-> FALSE, body |-> text]

Ok(text) == [kind |-> "response", ok |-> TRUE, body |-> text]

(* An answer that is not ok may carry no body, or one that would parse. *)
TabularResponses ==
  {Rejected, NotOk(<< >>), NotOk(TextOf(<<HeaderLine, DataLine(BaseFields, 18)>>))}
  \cup {Ok(t) : t \in TabularTexts}

NarrativeResponses ==
  {Rejected, NotOk(<< >>), NotOk(TextOf(<<LineGmt, LineWind, LineGust>>))}
  \cup {Ok(t) : t \in NarrativeTexts}

-----------------------------------------------------------------------------
(* The route's results                                                     *)

NoData ==
  [datetime |-> << >>, windDirection |-> Num(0), windSpeed |-> Num(0),
   gustSpeed |-> Num(0), pressure |-> Num(0), airTemp |-> Num(0),
   waterTemp |-> Num(0)]

NoResult == [success |-> FALSE, message |-> "", data |-> NoData]

(* NextResponse.json({success: true, data: windData, ...}) *)
Success(windData) == [success |-> TRUE, message |-> "", data |-> windData]

(* NextResponse.json({success: false, message: error.message}, {status: 500}) *)
Failure(message) == [success |-> FALSE, message |-> message, data |-> NoData]

(* rawData.trim().split('\n') *)
LinesOf(text) == SplitLines(Trim(text))

(* The probe of the tabular answer: more than one line, and more than 10   *)
(* whitespace-separated parts on the last one.                             *)
ProbeThreshold == 10

(* The probe with its column test off by one either way. *)
IsTabularLoose(testData) ==
  LET lines == LinesOf(testData)
  IN  Len(lines) > 1 /\ Len(SplitWhitespace(lines[Len(lines)])) >= ProbeThreshold

IsTabularStrict(testData) ==
  LET lines == LinesOf(testData)
  IN  Len(lines) > 1 /\ Len(SplitWhitespace(lines[Len(lines)])) > ProbeThreshold + 1

IsTabular(testData) ==
  LET lines == LinesOf(testData)
  IN  Len(lines) > 1 /\ Len(SplitWhitespace(lines[Len(lines)])) > ProbeThreshold

-----------------------------------------------------------------------------
(* The tabular parser                                                      *)

MinColumns == 13

(* parts[i], 0-indexed; undefined, which parseFloat turns into NaN, beyond *)
(* the end.                                                                *)
PartFloat(parts, i) == IF i + 1 <= Len(parts) THEN parseFloat(parts[i + 1]) ELSE NaN

Truthy(x) == ~x.nan /\ x.v # 0

(* `${parts[0]}-${parts[1].padStart(2,'0')}-...T...:...:00Z` *)
TabularDatetime(parts) ==
  parts[1] \o <<"-">> \o PadStart2(parts[2]) \o <<"-">> \o PadStart2(parts[3])
    \o <<"T">> \o PadStart2(parts[4]) \o <<":">> \o PadStart2(parts[5])
    \o <<":", "0", "0", "Z">>

(* The record as first built, converted to knots and Fahrenheit. *)
ConvertedRecord(parts) ==
  [datetime      |-> TabularDatetime(parts),
   windDirection |-> OrZero(PartFloat(parts, 5)),
   windSpeed     |-> OrZero(MsToKnots(PartFloat(parts, 6))),
   gustSpeed     |-> OrZero(MsToKnots(PartFloat(parts, 7))),
   pressure      |-> OrZero(PartFloat(parts, 12)),
   airTemp       |-> IF Truthy(PartFloat(parts, 13))
                       THEN CelsiusToFahrenheit(PartFloat(parts, 13)) ELSE Num(0),
   waterTemp     |-> IF Truthy(PartFloat(parts, 14))
                       THEN CelsiusToFahrenheit(PartFloat(parts, 14)) ELSE Num(0)]

(* The missing-data tests with > written for >=. *)
HandleMissingExclusive(w) ==
  [datetime      |-> w.datetime,
   windDirection |-> IF Eq(w.windDirection, 990) \/ Ge(w.windDirection, 9991)
                       THEN Num(0) ELSE w.windDirection,
   windSpeed     |-> IF Ge(w.windSpeed, 991) THEN Num(0) ELSE w.windSpeed,
   gustSpeed     |-> IF Ge(w.gustSpeed, 991) THEN Num(0) ELSE w.gustSpeed,
   pressure      |-> IF Ge(w.pressure, 99991) THEN Num(0) ELSE w.pressure,
   airTemp       |-> IF Ge(w.airTemp, 9991) THEN Num(0) ELSE w.airTemp,
   waterTemp     |-> IF Ge(w.waterTemp, 9991) THEN Num(0) ELSE w.waterTemp]

(* "Handle invalid/missing data": the tests run on the converted record.   *)
HandleMissing(w) ==
  [datetime      |-> w.datetime,
   windDirection |-> IF Eq(w.windDirection, 990) \/ Ge(w.windDirection, 9990)
                       THEN Num(0) ELSE w.windDirection,
   windSpeed     |-> IF Ge(w.windSpeed, 990) THEN Num(0) ELSE w.windSpeed,
   gustSpeed     |-> IF Ge(w.gustSpeed, 990) THEN Num(0) ELSE w.gustSpeed,
   pressure      |-> IF Ge(w.pressure, 99990) THEN Num(0) ELSE w.pressure,
   airTemp       |-> IF Ge(w.airTemp, 9990) THEN Num(0) ELSE w.airTemp,
   waterTemp     |-> IF Ge(w.waterTemp, 9990) THEN Num(0) ELSE w.waterTemp]

(* The column test asking for the two temperature columns as well. *)
ParseTabularStrict(lines) ==
  LET parts == SplitWhitespace(lines[Len(lines)])
  IN  IF Len(parts) < MinColumns + 2
        THEN Failure("Invalid tabular data format")
        ELSE Success(HandleMissing(ConvertedRecord(parts)))

ParseTabular(lines) ==
  LET parts == SplitWhitespace(lines[Len(lines)])
  IN  IF Len(parts) < MinColumns
        THEN Failure("Invalid tabular data format")
        ELSE Success(HandleMissing(ConvertedRecord(parts)))

-----------------------------------------------------------------------------
(* The human-readable parser                                               *)

CharAt(s, i) == IF i \in 1..Len(s) THEN s[i] ELSE ""

NumberChars == Digits \cup {"."}

(* lines.find(line => line.includes(marker)): the index of the first line  *)
(* that holds the marker, 0 when there is none.                            *)
FindLine(lines, marker) ==
  LET hits == {i \in 1..Len(lines) : Includes(lines[i], marker)}
  IN  IF hits = {} THEN 0 ELSE SetMin(hits)

NoMatch == [matched |-> FALSE, groups |-> << >>]

Match(groups) == [matched |-> TRUE, groups |-> groups]

(* /(\d{4})\s+GMT\s+(\d{1,2})\/(\d{1,2})\/(\d{2})/ tried at position i *)
GmtMatchAt(s, i) ==
  LET ws1   == RunEnd(s, i + 4, Whitespace)
      ws2   == RunEnd(s, ws1 + 4, Whitespace)
      mEnd  == RunEnd(s, ws2 + 1, Digits)
      dEnd  == RunEnd(s, mEnd + 2, Digits)
      y     == dEnd + 2
      fits  == /\ \A k \in i..(i + 3) : IsDigit(CharAt(s, k))
               /\ ws1 >= i + 4
               /\ MatchesAt(s, ws1 + 1, StrGMT)
               /\ ws2 >= ws1 + 4
               /\ mEnd - ws2 \in {1, 2}
               /\ CharAt(s, mEnd + 1) = "/"
               /\ dEnd - (mEnd + 1) \in {1, 2}
               /\ CharAt(s, dEnd + 1) = "/"
               /\ IsDigit(CharAt(s, y)) /\ IsDigit(CharAt(s, y + 1))
  IN  IF fits
        THEN Match(<<SubSeq(s, i, i + 3), SubSeq(s, ws2 + 1, mEnd),
                     SubSeq(s, mEnd + 2, dEnd), SubSeq(s, y, y + 1)>>)
        ELSE NoMatch

(* /\((\d+)°?\)/ tried at position i *)
DirMatchAt(s, i) ==
  LET dEnd  == RunEnd(s, i + 1, Digits)
      close == IF CharAt(s, dEnd + 1) = "deg" THEN dEnd + 2 ELSE dEnd + 1
  IN  IF CharAt(s, i) = "(" /\ dEnd >= i + 1 /\ CharAt(s, close) = ")"
        THEN Match(<<SubSeq(s, i + 1, dEnd)>>)
        ELSE NoMatch

(* \s*([\d.]+)\s*kt tried from position i: the tail of the speed and gust  *)
(* expressions.                                                            *)
KnotsMatchFrom(s, i) ==
  LET ws1  == RunEnd(s, i, Whitespace)
      nEnd == RunEnd(s, ws1 + 1, NumberChars)
      ws2  == RunEnd(s, nEnd + 1, Whitespace)
  IN  IF nEnd >= ws1 + 1 /\ MatchesAt(s, ws2 + 1, StrKt)
        THEN Match(<<SubSeq(s, ws1 + 1, nEnd)>>)
        ELSE NoMatch

(* /,\s*([\d.]+)\s*kt/ tried at position i *)
SpeedMatchAt(s, i) == IF CharAt(s, i) = "," THEN KnotsMatchFrom(s, i + 1) ELSE NoMatch

(* /Gust:\s*([\d.]+)\s*kt/ tried at position i *)
GustMatchAt(s, i) ==
  IF MatchesAt(s, i, StrGust) THEN KnotsMatchFrom(s, i + Len(StrGust)) ELSE NoMatch

(* String.prototype.match: the leftmost position at which the expression   *)
(* matches.                                                                *)
GmtMatch(s) ==
  LET at == {i \in 1..Len(s) : GmtMatchAt(s, i).matched}
  IN  IF at = {} THEN NoMatch ELSE GmtMatchAt(s, SetMin(at))

DirMatch(s) ==
  LET at == {i \in 1..Len(s) : DirMatchAt(s, i).matched}
  IN  IF at = {} THEN NoMatch ELSE DirMatchAt(s, SetMin(at))

SpeedMatch(s) ==
  LET at == {i \in 1..Len(s) : SpeedMatchAt(s, i).matched}
  IN  IF at = {} THEN NoMatch ELSE SpeedMatchAt(s, SetMin(at))

GustMatch(s) ==
  LET at == {i \in 1..Len(s) : GustMatchAt(s, i).matched}
  IN  IF at = {} THEN NoMatch ELSE GustMatchAt(s, SetMin(at))

(* `${fullYear}-${month.padStart(2,'0')}-${day.padStart(2,'0')}T${hours}:${minutes}:00Z` *)
NarrativeDatetime(g) ==
  <<"2", "0">> \o g[4] \o <<"-">> \o PadStart2(g[2]) \o <<"-">> \o PadStart2(g[3])
    \o <<"T">> \o SubSeq(g[1], 1, 2) \o <<":">> \o SubSeq(g[1], 3, 4)
    \o <<":", "0", "0", "Z">>

(* dateTime: from the first line that includes 'GMT', when the expression  *)
(* matches that line; '' otherwise.                                        *)
ExtractDateTime(lines) ==
  LET g == FindLine(lines, StrGMT)
      m == IF g = 0 THEN NoMatch ELSE GmtMatch(lines[g])
  IN  IF m.matched THEN NarrativeDatetime(m.groups) ELSE << >>

ExtractWindDirection(lines) ==
  LET w == FindLine(lines, StrWind)
      m == IF w = 0 THEN NoMatch ELSE DirMatch(lines[w])
  IN  IF m.matched THEN parseInt(m.groups[1]) ELSE Num(0)

ExtractWindSpeed(lines) ==
  LET w == FindLine(lines, StrWind)
      m == IF w = 0 THEN NoMatch ELSE SpeedMatch(lines[w])
  IN  IF m.matched THEN parseFloat(m.groups[1]) ELSE Num(0)

ExtractGustSpeed(lines) ==
  LET g == FindLine(lines, StrGust)
      m == IF g = 0 THEN NoMatch ELSE GustMatch(lines[g])
  IN  IF m.matched THEN parseFloat(m.groups[1]) ELSE Num(0)

ParseNarrative(lines) ==
  LET dateTime == ExtractDateTime(lines)
  IN  IF dateTime = << >>
        THEN Failure("Could not parse date/time from NOAA data")
        ELSE Success([datetime      |-> dateTime,
                      windDirection |-> ExtractWindDirection(lines),
                      windSpeed     |-> ExtractWindSpeed(lines),
                      gustSpeed     |-> ExtractGustSpeed(lines),
                      pressure      |-> Num(0),
                      airTemp       |-> Num(0),
                      waterTemp     |-> Num(0)])

-----------------------------------------------------------------------------
(* One invocation of GET                                                   *)

(* The state of an invocation at its start (lines 14-23). *)
GetInit ==
  /\ pc = "INIT"
  /\ tabularResponse = Pending
  /\ narrativeResponse = Pending
  /\ isTabularFormat = FALSE
  /\ rawData = << >>
  /\ dataSource = "none"
  /\ result = NoResult

(* The parts of the model that a specification leaves out stay as here. *)
ParserIdle == parserInput = << >> /\ parserOutput = NoResult

ExtractorIdle == properties = "none" /\ extracted = [done |-> FALSE]

CallsIdle == calls = << >>

PageIdle == page = "unmounted"

Init == GetInit /\ ParserIdle /\ ExtractorIdle /\ CallsIdle /\ PageIdle

(* await fetch('.../realtime2/AGXC1.txt') *)
FetchTabular ==
  /\ pc = "INIT"
  /\ \E r \in TabularResponses : tabularResponse' = r
  /\ pc' = "PROBE_TABULAR"
  /\ UNCHANGED <<narrativeResponse, isTabularFormat, rawData, dataSource, result>>
  /\ UNCHANGED elsewhere

(* The probe without the if (!isTabularFormat) around the second fetch. *)
ProbeTabularThenNarrative ==
  /\ pc = "PROBE_TABULAR"
  /\ LET passes == /\ tabularResponse.kind = "response"
                   /\ tabularResponse.ok
                   /\ IsTabular(tabularResponse.body)
     IN  /\ isTabularFormat' = passes
         /\ rawData' = IF passes THEN tabularResponse.body ELSE rawData
         /\ dataSource' = IF passes THEN "tabular" ELSE dataSource
         /\ pc' = "FETCH_NARRATIVE"
  /\ UNCHANGED <<tabularResponse, narrativeResponse, result>>
  /\ UNCHANGED elsewhere

(* The inner try: a rejected fetch is caught and logged; an ok answer is   *)
(* read and probed.                                                        *)
ProbeTabular ==
  /\ pc = "PROBE_TABULAR"
  /\ LET passes == /\ tabularResponse.kind = "response"
                   /\ tabularResponse.ok
                   /\ IsTabular(tabularResponse.body)
     IN  /\ isTabularFormat' = passes
         /\ rawData' = IF passes THEN tabularResponse.body ELSE rawData
         /\ dataSource' = IF passes THEN "tabular" ELSE dataSource
         /\ pc' = IF passes THEN "VALIDATE" ELSE "FETCH_NARRATIVE"
  /\ UNCHANGED <<tabularResponse, narrativeResponse, result>>
  /\ UNCHANGED elsewhere

(* The narrative fetch without its test of response.ok. *)
FetchNarrativeUnchecked ==
  /\ pc = "FETCH_NARRATIVE"
  /\ \E r \in NarrativeResponses :
       /\ narrativeResponse' = r
       /\ dataSource' = IF r.kind = "rejected" THEN dataSource ELSE "human-readable"
       /\ rawData' = IF r.kind = "response" THEN r.body ELSE rawData
       /\ pc' = IF r.kind = "response" THEN "VALIDATE" ELSE "FAILED"
       /\ result' = IF r.kind = "rejected" THEN Failure("fetch failed") ELSE result
  /\ UNCHANGED <<tabularResponse, isTabularFormat>>
  /\ UNCHANGED elsewhere

(* if (!isTabularFormat): await fetch('.../latest_obs/agxc1.txt'); a       *)
(* rejected fetch and a response that is not ok both end in the outer      *)
(* catch.                                                                  *)
FetchNarrative ==
  /\ pc = "FETCH_NARRATIVE"
  /\ \E r \in NarrativeResponses :
       /\ narrativeResponse' = r
       /\ dataSource' = IF r.kind = "rejected" THEN dataSource ELSE "human-readable"
       /\ rawData' = IF r.kind = "response" /\ r.ok THEN r.body ELSE rawData
       /\ pc' = IF r.kind = "response" /\ r.ok THEN "VALIDATE" ELSE "FAILED"
       /\ result' = IF r.kind = "rejected" THEN Failure("fetch failed")
                    ELSE IF ~r.ok THEN Failure("HTTP error")
                    ELSE result
  /\ UNCHANGED <<tabularResponse, isTabularFormat>>
  /\ UNCHANGED elsewhere

(* The checks on the text chosen, whichever source it came from: it is not *)
(* empty and has at least two lines.  (response is never null here: each   *)
(* fetch answered or threw.)                                               *)
MinLines == 2

CheckText(text) ==
  IF text = << >> THEN Failure("Failed to read data from any source")
  ELSE IF Len(LinesOf(text)) < MinLines THEN Failure("Not enough data lines")
  ELSE NoResult

(* The checks with a failure starting the invocation over. *)
ValidateRetry ==
  /\ pc = "VALIDATE"
  /\ LET checked == CheckText(rawData)
     IN  /\ result' = checked
         /\ pc' = IF checked.message # "" THEN "INIT"
                  ELSE IF isTabularFormat THEN "PARSE_TABULAR"
                  ELSE "PARSE_NARRATIVE"
  /\ UNCHANGED <<tabularResponse, narrativeResponse, isTabularFormat, rawData, dataSource>>
  /\ UNCHANGED elsewhere

Validate ==
  /\ pc = "VALIDATE"
  /\ LET checked == CheckText(rawData)
     IN  /\ result' = checked
         /\ pc' = IF checked.message # "" THEN "FAILED"
                  ELSE IF isTabularFormat THEN "PARSE_TABULAR"
                  ELSE "PARSE_NARRATIVE"
  /\ UNCHANGED <<tabularResponse, narrativeResponse, isTabularFormat, rawData, dataSource>>
  /\ UNCHANGED elsewhere

(* if (isTabularFormat) { ... }, then the success response or the catch *)
ParseTabularStep ==
  /\ pc = "PARSE_TABULAR"
  /\ result' = ParseTabular(LinesOf(rawData))
  /\ pc' = IF result'.success THEN "DONE" ELSE "FAILED"
  /\ UNCHANGED <<tabularResponse, narrativeResponse, isTabularFormat, rawData, dataSource>>
  /\ UNCHANGED elsewhere

(* else { ... }, then the success response or the catch *)
ParseNarrativeStep ==
  /\ pc = "PARSE_NARRATIVE"
  /\ result' = ParseNarrative(LinesOf(rawData))
  /\ pc' = IF result'.success THEN "DONE" ELSE "FAILED"
  /\ UNCHANGED <<tabularResponse, narrativeResponse, isTabularFormat, rawData, dataSource>>
  /\ UNCHANGED elsewhere

Next ==
  \/ FetchTabular
  \/ ProbeTabular
  \/ FetchNarrative
  \/ Validate
  \/ ParseTabularStep
  \/ ParseNarrativeStep

Spec == Init /\ [][Next]_vars

(* The positions of an invocation in the code *)
Positions ==
  {"INIT", "PROBE_TABULAR", "FETCH_NARRATIVE", "VALIDATE", "PARSE_TABULAR",
   "PARSE_NARRATIVE", "DONE", "FAILED"}

(* An invocation that has not ended moves on: each retrieval answers or    *)
(* fails, and the runtime resumes the async function after every await.    *)
(* Every step of Next leaves its position, so in a behaviour of Spec the   *)
(* steps that change pc are the steps of Next.                             *)
Resume == pc \notin {"DONE", "FAILED"} /\ pc' \in Positions \ {pc}

FairSpec == Spec /\ WF_pc(Resume)

-----------------------------------------------------------------------------
(* The human-readable parser on its own (lines 130-198), applied to the    *)
(* lines of a report                                                       *)

(* Wind: and Gust: lines with one or both tokens missing or malformed *)
LineWindDirOnly ==
  <<"W", "i", "n", "d", ":", " ", "S", " ", "(", "1", "8", "0", "deg",
  ")">>

LineWindSpeedOnly ==
  <<"W", "i", "n", "d", ":", " ", "S", ",", " ", "8", ".", "0", " ", "k",
  "t">>

LineWindBare ==
  <<"W", "i", "n", "d", ":", " ", "8", ".", "0", " ", "k", "t">>

LineWindCalm ==
  <<"W", "i", "n", "d", ":", " ", "c", "a", "l", "m">>

LineWindMalformed ==
  <<"W", "i", "n", "d", ":", " ", "S", " ", "(", "S", "S", "W", ")", ",",
  " ", ".", " ", "k", "t">>

LineGustMalformed ==
  <<"G", "u", "s", "t", ":", " ", "n", "/", "a">>

ParserLines ==
  {LineGmt, LineWind, LineWindDirOnly, LineWindSpeedOnly, LineWindBare,
   LineWindCalm, LineWindMalformed, LineGust, LineGustMalformed}

MaxParserLines == 3

(* The parser runs after the check lines.length < 2. *)
ParserInputs == {q \in SeqsUpTo(ParserLines, MaxParserLines) : Len(q) >= MinLines}

ParserInit ==
  /\ GetInit
  /\ parserInput \in ParserInputs
  /\ parserOutput = NoResult
  /\ ExtractorIdle /\ CallsIdle /\ PageIdle

RunNarrativeParser ==
  /\ parserOutput = NoResult
  /\ parserOutput' = ParseNarrative(parserInput)
  /\ UNCHANGED <<getVars, parserInput, properties, extracted, calls, page>>

ParserSpec == ParserInit /\ [][RunNarrativeParser]_vars

-----------------------------------------------------------------------------
(* extractWindData of the NOAA observations route.  A quantity of the      *)
(* JSON is a record [present, isNull, value, unitCode]: the key may be     *)
(* missing, its value may be null, the value is in tenths, and an empty    *)
(* unitCode stands for a missing one as well (both are falsy).  Units and  *)
(* unit codes are sequences of characters.                                 *)

UnitMs == <<"m", "/", "s">>
UnitKmh == <<"k", "m", "/", "h">>
UnitMph == <<"m", "p", "h">>
UnitKt == <<"k", "t">>

CodeMs == <<"w", "m", "o", "U", "n", "i", "t", ":", "m", "_", "s", "-", "1">>
CodeKmPh == <<"w", "m", "o", "U", "n", "i", "t", ":", "k", "m", "P", "h">>
CodeKmH == <<"w", "m", "o", "U", "n", "i", "t", ":", "k", "m", "_", "h", "-", "1">>
CodeMph == <<"u", "n", "i", "t", ":", "m", "p", "h">>
CodeKnot == <<"u", "n", "i", "t", ":", "k", "n", "o", "t">>

parseUnitCode(unitCode) ==
  IF Includes(unitCode, <<"m", "_", "s", "-", "1">>) \/ Includes(unitCode, UnitMs)
    THEN UnitMs
  ELSE IF Includes(unitCode, <<"k", "m", "P", "h">>) \/ Includes(unitCode, UnitKmh)
    THEN UnitKmh
  ELSE IF Includes(unitCode, UnitMph)
    THEN UnitMph
  ELSE IF Includes(unitCode, UnitKt) \/ Includes(unitCode, <<"k", "n", "o", "t">>)
    THEN UnitKt
  ELSE UnitKt

(* Math.round(v * 0.868976 * 10) / 10 for v >= 0 in tenths; no product     *)
(* falls on a half for the values of the model.                            *)
MphToKnots(v) == (v * 868976 + 500000) \div 1000000

(* The value and unit of a quantity that is present and not null: the      *)
(* unit named by the code, 'kt' without a code; m/s and mph are converted  *)
(* and reported as 'kt'; any other unit is left as it is.                  *)
NormalizeSpeed(value, unitCode) ==
  LET unit == IF unitCode # << >> THEN parseUnitCode(unitCode) ELSE UnitKt
  IN  IF unit = UnitMs
        THEN [value |-> MsToKnots(Num(value)).v, unit |-> UnitKt]
      ELSE IF unit = UnitMph
        THEN [value |-> MphToKnots(value), unit |-> UnitKt]
      ELSE [value |-> value, unit |-> unit]

Usable(q) == q.present /\ ~q.isNull

extractWindData(p) ==
  [timestamp     |-> p.timestamp,
   windSpeed     |-> IF Usable(p.windSpeed)
                       THEN NormalizeSpeed(p.windSpeed.value, p.windSpeed.unitCode).value
                       ELSE 0,
   windSpeedUnit |-> IF Usable(p.windSpeed)
                       THEN NormalizeSpeed(p.windSpeed.value, p.windSpeed.unitCode).unit
                       ELSE UnitKt,
   windDirection |-> IF Usable(p.windDirection) THEN p.windDirection.value ELSE 0,
   windGust      |-> IF Usable(p.windGust)
                       THEN [isNull |-> FALSE,
                             value  |-> NormalizeSpeed(p.windGust.value,
                                                       p.windGust.unitCode).value]
                       ELSE [isNull |-> TRUE, value |-> 0],
   windGustUnit  |-> IF Usable(p.windGust)
                       THEN NormalizeSpeed(p.windGust.value, p.windGust.unitCode).unit
                       ELSE << >>]

(* The inputs of the model *)
Missing == [present |-> FALSE, isNull |-> FALSE, value |-> 0, unitCode |-> << >>]

Quantity(value, unitCode) ==
  [present |-> TRUE, isNull |-> FALSE, value |-> value, unitCode |-> unitCode]

Null(unitCode) ==
  [present |-> TRUE, isNull |-> TRUE, value |-> 0, unitCode |-> unitCode]

UnitCodes == {<< >>, CodeMs, CodeKmPh, CodeKmH, CodeMph, CodeKnot, UnitKt}

SpeedValues == {0, 41, 100}

Speeds ==
  {Missing} \cup {Null(c) : c \in {CodeMs, CodeKmPh}}
    \cup {Quantity(v, c) : v \in SpeedValues, c \in UnitCodes}

Directions == {Missing, Null(<< >>), Quantity(1800, << >>)}

Timestamps == {<< >>, <<"t">>}

PropertiesInputs ==
  [timestamp : Timestamps, windSpeed : Speeds, windDirection : Directions,
   windGust : Speeds]

NotExtracted == [done |-> FALSE]

ExtractorInit ==
  /\ GetInit
  /\ ParserIdle
  /\ properties \in PropertiesInputs
  /\ extracted = NotExtracted
  /\ CallsIdle /\ PageIdle

Extract ==
  /\ ~extracted.done
  /\ extracted' = [done |-> TRUE, data |-> extractWindData(properties)]
  /\ UNCHANGED <<getVars, parserInput, parserOutput, properties, calls, page>>

ExtractorSpec == ExtractorInit /\ [][Extract]_vars

-----------------------------------------------------------------------------
(* The wind-data state of the dashboard (Home of page.tsx).  page holds    *)
(* the React state loading, windData and error, and the calls of           *)
(* fetchWindData so far: issued counts them and status[k] tells whether    *)
(* call k still awaits its response or how it was answered.  The data of   *)
(* the k-th call's response is written k; windData = 0 and error = ""      *)
(* stand for null.  (lastUpdate is set together with windData.)            *)

MaxRequests == 3

(* useState(null), useState(true), useState(null) *)
Mounted ==
  [loading |-> TRUE, windData |-> 0, error |-> "", issued |-> 0, status |-> << >>]

(* fetchWindData up to its first await: setLoading(true), fetch sent *)
StartFetch(p) ==
  [p EXCEPT !.loading = TRUE, !.issued = @ + 1, !.status = Append(@, "inFlight")]

(* fetchWindData from the response on: success sets windData and clears    *)
(* the error; success: false sets the error; a rejected fetch or json()    *)
(* sets 'Network error'; finally, setLoading(false).                       *)
Outcomes == {"success", "refused", "network"}

Settle(p, k, outcome) ==
  [p EXCEPT !.status[k] = outcome,
            !.windData = IF outcome = "success" THEN k ELSE @,
            !.error = IF outcome = "success" THEN ""
                      ELSE IF outcome = "refused" THEN "Failed to fetch wind data"
                      ELSE "Network error",
            !.loading = FALSE]

(* What Home renders: the spinner, the error card with Retry, nothing, or  *)
(* the data with Refresh.                                                  *)
View(p) ==
  IF p.loading /\ p.windData = 0 THEN "spinner"
  ELSE IF p.error # "" THEN "error"
  ELSE IF p.windData = 0 THEN "empty"
  ELSE "main"

DashboardInit ==
  /\ GetInit
  /\ ParserIdle /\ ExtractorIdle /\ CallsIdle
  /\ page = Mounted

(* useEffect: fetchWindData() on load *)
InitialLoad ==
  /\ page.issued = 0
  /\ page' = StartFetch(page)
  /\ UNCHANGED <<getVars, parserInput, parserOutput, properties, extracted, calls>>

(* setInterval(fetchWindData, 5 * 60 * 1000), set up by the same effect *)
TimerTick ==
  /\ page.issued >= 1
  /\ page.issued < MaxRequests
  /\ page' = StartFetch(page)
  /\ UNCHANGED <<getVars, parserInput, parserOutput, properties, extracted, calls>>

(* The Refresh button: onClick={fetchWindData} disabled={loading} *)
ClickRefresh ==
  /\ View(page) = "main"
  /\ ~page.loading
  /\ page.issued < MaxRequests
  /\ page' = StartFetch(page)
  /\ UNCHANGED <<getVars, parserInput, parserOutput, properties, extracted, calls>>

(* The Retry button of the error card: onClick={fetchWindData} *)
ClickRetry ==
  /\ View(page) = "error"
  /\ page.issued < MaxRequests
  /\ page' = StartFetch(page)
  /\ UNCHANGED <<getVars, parserInput, parserOutput, properties, extracted, calls>>

(* The response of a call that awaits one, in any order *)
Respond ==
  /\ \E k \in 1..page.issued, outcome \in Outcomes :
       /\ page.status[k] = "inFlight"
       /\ page' = Settle(page, k, outcome)
  /\ UNCHANGED <<getVars, parserInput, parserOutput, properties, extracted, calls>>

DashboardNext ==
  \/ InitialLoad
  \/ TimerTick
  \/ ClickRefresh
  \/ ClickRetry
  \/ Respond

DashboardSpec == DashboardInit /\ [][DashboardNext]_vars

-----------------------------------------------------------------------------
(* Two invocations of GET in flight together.  The variables of GET are    *)
(* declared inside the function (lines 14, 21-23, 84, 96, 134-137), so     *)
(* each invocation has its own: calls[i] is the record of invocation i,    *)
(* with the fields of the single invocation above, and a step of           *)
(* invocation i is the step of the single invocation taken on calls[i].    *)

Invocations == {1, 2}

Started ==
  [pc |-> "INIT", tabularResponse |-> Pending, narrativeResponse |-> Pending,
   isTabularFormat |-> FALSE, rawData |-> << >>, dataSource |-> "none",
   result |-> NoResult]

(* await fetch('.../realtime2/AGXC1.txt') *)
AfterFetchTabular(c, r) == [c EXCEPT !.tabularResponse = r, !.pc = "PROBE_TABULAR"]

(* The inner try and its probe *)
AfterProbe(c) ==
  LET passes == /\ c.tabularResponse.kind = "response"
                /\ c.tabularResponse.ok
                /\ IsTabular(c.tabularResponse.body)
  IN  [c EXCEPT !.isTabularFormat = passes,
                !.rawData = IF passes THEN c.tabularResponse.body ELSE @,
                !.dataSource = IF passes THEN "tabular" ELSE @,
                !.pc = IF passes THEN "VALIDATE" ELSE "FETCH_NARRATIVE"]

(* if (!isTabularFormat): the second fetch *)
AfterFetchNarrative(c, r) ==
  [c EXCEPT !.narrativeResponse = r,
            !.dataSource = IF r.kind = "rejected" THEN @ ELSE "human-readable",
            !.rawData = IF r.kind = "response" /\ r.ok THEN r.body ELSE @,
            !.pc = IF r.kind = "response" /\ r.ok THEN "VALIDATE" ELSE "FAILED",
            !.result = IF r.kind = "rejected" THEN Failure("fetch failed")
                       ELSE IF ~r.ok THEN Failure("HTTP error")
                       ELSE @]

AfterValidate(c) ==
  LET checked == CheckText(c.rawData)
  IN  [c EXCEPT !.result = checked,
                !.pc = IF checked.message # "" THEN "FAILED"
                       ELSE IF c.isTabularFormat THEN "PARSE_TABULAR"
                       ELSE "PARSE_NARRATIVE"]

AfterParse(c) ==
  LET parsed == IF c.isTabularFormat THEN ParseTabular(LinesOf(c.rawData))
                ELSE ParseNarrative(LinesOf(c.rawData))
  IN  [c EXCEPT !.result = parsed,
                !.pc = IF parsed.success THEN "DONE" ELSE "FAILED"]

(* rawData as one variable of the module, written by every invocation. *)
BindShared(cs, i, c) ==
  [j \in DOMAIN cs |-> IF j = i THEN c ELSE [cs[j] EXCEPT !.rawData = c.rawData]]

(* Invocation i goes on with its own variables; no other's change. *)
Bind(cs, i, c) == [cs EXCEPT ![i] = c]

(* What the two sources answer to the invocations of this part *)
RowWindy == [BaseFields EXCEPT !.wspd = <<"9", ".", "8">>]

CallTabularResponses ==
  {Rejected,
   Ok(TextOf(<<HeaderLine, DataLine(BaseFields, 10)>>)),
   Ok(TextOf(<<HeaderLine, DataLine(BaseFields, 12)>>)),
   Ok(TextOf(<<HeaderLine, DataLine(BaseFields, 18)>>)),
   Ok(TextOf(<<HeaderLine, DataLine(RowWindy, 18)>>))}

CallNarrativeResponses ==
  {Rejected,
   Ok(TextOf(<<LineStation>>)),
   Ok(TextOf(<<LineStation, LineGmt, LineWind, LineGust>>)),
   Ok(TextOf(<<LineGmtShort, LineWind>>))}

CallsInit ==
  /\ GetInit
  /\ ParserIdle /\ ExtractorIdle /\ PageIdle
  /\ calls = [i \in Invocations |-> Started]

CallFetchTabular ==
  /\ \E i \in Invocations, r \in CallTabularResponses :
       /\ calls[i].pc = "INIT"
       /\ calls' = Bind(calls, i, AfterFetchTabular(calls[i], r))
  /\ UNCHANGED <<getVars, parserInput, parserOutput, properties, extracted, page>>

CallProbeTabular ==
  /\ \E i \in Invocations :
       /\ calls[i].pc = "PROBE_TABULAR"
       /\ calls' = Bind(calls, i, AfterProbe(calls[i]))
  /\ UNCHANGED <<getVars, parserInput, parserOutput, properties, extracted, page>>

CallFetchNarrative ==
  /\ \E i \in Invocations, r \in CallNarrativeResponses :
       /\ calls[i].pc = "FETCH_NARRATIVE"
       /\ calls' = Bind(calls, i, AfterFetchNarrative(calls[i], r))
  /\ UNCHANGED <<getVars, parserInput, parserOutput, properties, extracted, page>>

CallValidate ==
  /\ \E i \in Invocations :
       /\ calls[i].pc = "VALIDATE"
       /\ calls' = Bind(calls, i, AfterValidate(calls[i]))
  /\ UNCHANGED <<getVars, parserInput, parserOutput, properties, extracted, page>>

CallParse ==
  /\ \E i \in Invocations :
       /\ calls[i].pc \in {"PARSE_TABULAR", "PARSE_NARRATIVE"}
       /\ calls' = Bind(calls, i, AfterParse(calls[i]))
  /\ UNCHANGED <<getVars, parserInput, parserOutput, properties, extracted, page>>

CallsNext ==
  \/ CallFetchTabular
  \/ CallProbeTabular
  \/ CallFetchNarrative
  \/ CallValidate
  \/ CallParse

CallsSpec == CallsInit /\ [][CallsNext]_vars

-----------------------------------------------------------------------------
(* Properties                                                              *)

Finished == pc \in {"DONE", "FAILED"}

TabularPresent == tabularResponse.kind = "response" /\ tabularResponse.ok

NarrativePresent == narrativeResponse.kind = "response" /\ narrativeResponse.ok

NarrativeAbsent ==
  narrativeResponse.kind = "rejected"
    \/ (narrativeResponse.kind = "response" /\ ~narrativeResponse.ok)

LastLine(text) == LinesOf(text)[Len(LinesOf(text))]

(* The number of whitespace-separated tokens on the last line of a text. *)
TokenCount(text) == Len(SplitWhitespace(LastLine(text)))

ColumnError == "Invalid tabular data format"

TimestampError == "Could not parse date/time from NOAA data"

(* What the route makes of a narrative text: its checks, then the parser. *)
NarrativeResult(text) ==
  IF CheckText(text).message # "" THEN CheckText(text)
  ELSE ParseNarrative(LinesOf(text))

(* The tabular parser ran to the end of the invocation. *)
TabularParsed == pc = "DONE" /\ isTabularFormat

(* The parts of the row the tabular parser read. *)
RawPart(i) == PartFloat(SplitWhitespace(LastLine(rawData)), i)

(* C1: a tabular text that passed the probe but has fewer than 13 tokens   *)
(* on its last line (11 or 12) leads to the narrative path; the invocation *)
(* never fails with the column-count error.                                *)
C1_ShortRowFallsBack ==
  (Finished /\ isTabularFormat /\ TokenCount(tabularResponse.body) < MinColumns)
    => /\ narrativeResponse # Pending
       /\ result.message # ColumnError

C3_RoutedWhateverLineCount ==
  (pc \notin {"INIT", "PROBE_TABULAR"} /\ TabularPresent
     /\ TokenCount(tabularResponse.body) > 10)
    => /\ isTabularFormat
       /\ dataSource = "tabular"
       /\ narrativeResponse = Pending

(* C3, amended: a tabular candidate that is present, has more than one     *)
(* line and has more than 10 tokens on its last line is routed to the      *)
(* tabular parser: the narrative source is not fetched, and the invocation *)
(* ends with the tabular parser's result.                                  *)
C3_RoutedToTabular ==
  (pc \notin {"INIT", "PROBE_TABULAR"} /\ TabularPresent
     /\ Len(LinesOf(tabularResponse.body)) > 1
     /\ TokenCount(tabularResponse.body) > 10)
    => /\ isTabularFormat
       /\ dataSource = "tabular"
       /\ narrativeResponse = Pending
       /\ pc \in {"VALIDATE", "PARSE_TABULAR", "DONE", "FAILED"}
       /\ Finished => result = ParseTabular(LinesOf(tabularResponse.body))

C3_Witness ==
  /\ pc = "DONE"
  /\ TabularPresent
  /\ TokenCount(tabularResponse.body) = 13
  /\ dataSource = "tabular"
  /\ result.success

(* C4: an invocation fails only when no candidate text is available or     *)
(* when no line of the narrative text matches the GMT pattern; every other *)
(* input yields a record.                                                  *)
C4_OnlyTwoFailures ==
  pc = "FAILED"
    => \/ NarrativeAbsent
       \/ /\ NarrativePresent
          /\ \A i \in 1..Len(LinesOf(narrativeResponse.body)) :
               ~GmtMatch(LinesOf(narrativeResponse.body)[i]).matched

C6_RangeLaw ==
  TabularParsed
    => /\ result.data.windDirection.v >= 0
       /\ result.data.windDirection.v < 3600
       /\ result.data.windSpeed.v >= 0
       /\ result.data.gustSpeed.v >= 0

(* C7: a raw tabular field equal to its sentinel (direction 99 or 999,     *)
(* speed 99, gust 99, pressure 9999, air and water temperature 999) is 0   *)
(* in the record returned.                                                 *)
C7_SentinelLaw ==
  TabularParsed
    => /\ (Eq(RawPart(5), 990) \/ Eq(RawPart(5), 9990))
            => Eq(result.data.windDirection, 0)
       /\ Eq(RawPart(6), 990) => Eq(result.data.windSpeed, 0)
       /\ Eq(RawPart(7), 990) => Eq(result.data.gustSpeed, 0)
       /\ Eq(RawPart(12), 99990) => Eq(result.data.pressure, 0)
       /\ Eq(RawPart(13), 9990) => Eq(result.data.airTemp, 0)
       /\ Eq(RawPart(14), 9990) => Eq(result.data.waterTemp, 0)

C7_Witness ==
  /\ TabularParsed
  /\ Eq(RawPart(12), 99990)
  /\ Eq(RawPart(13), 9990)
  /\ Eq(RawPart(14), 9990)
  /\ Eq(result.data.pressure, 0)

(* round(c * 9/5 + 32, 1), in tenths *)
RoundedFahrenheit(c) == (18 * c + 3205) \div 10

(* C8: on the tabular path every numeric Celsius token below the sentinel  *)
(* 999, 0 included, yields round(c * 9/5 + 32, 1); 0 degrees Celsius       *)
(* yields 32.0.                                                            *)
C8_CelsiusConverted ==
  TabularParsed
    => /\ (~RawPart(13).nan /\ RawPart(13).v < 9990)
            => Eq(result.data.airTemp, RoundedFahrenheit(RawPart(13).v))
       /\ (~RawPart(14).nan /\ RawPart(14).v < 9990)
            => Eq(result.data.waterTemp, RoundedFahrenheit(RawPart(14).v))

(* round(v * 1.943844, 1), in tenths *)
RoundedKnots(v) == (v * 1943844 + 500000) \div 1000000

(* C9: a wind speed or gust of v m/s, 0.0 <= v <= 98.9, is returned as     *)
(* round(v * 1.943844, 1) knots.                                           *)
C9_KnotsConversion ==
  TabularParsed
    => /\ (~RawPart(6).nan /\ RawPart(6).v \in 0..989)
            => Eq(result.data.windSpeed, RoundedKnots(RawPart(6).v))
       /\ (~RawPart(7).nan /\ RawPart(7).v \in 0..989)
            => Eq(result.data.gustSpeed, RoundedKnots(RawPart(7).v))

(* The narrative parser ran to the end of the invocation. *)
NarrativeParsed ==
  /\ Finished
  /\ ~isTabularFormat
  /\ NarrativePresent
  /\ CheckText(rawData).message = ""

MatchingLines(lines) == {i \in 1..Len(lines) : GmtMatch(lines[i]).matched}

(* C10: the narrative parser fails with the timestamp error exactly when   *)
(* no line matches HHMM GMT MM/DD/YY; when a line matches, the timestamp   *)
(* is composed from the first matching line.                               *)
C10_TimestampFromMatchingLine ==
  NarrativeParsed
    => LET lines == LinesOf(rawData)
           hits  == MatchingLines(lines)
       IN  /\ (result.message = TimestampError) <=> (hits = {})
           /\ hits # {}
                => /\ result.success
                   /\ result.data.datetime
                        = NarrativeDatetime(GmtMatch(lines[SetMin(hits)]).groups)

(* C16, as stated: on the tabular path the missing-data test looks at the  *)
(* raw value in source units: a speed or gust is 0 exactly when the raw    *)
(* m/s value is at least 99 and is otherwise the converted value; an air   *)
(* or water temperature is 0 exactly when the raw Celsius value is at      *)
(* least 999 and is otherwise the converted value.  (0 degrees Celsius is  *)
(* left to C8.)                                                            *)
C16_SentinelOnRawValue ==
  TabularParsed
    => /\ ~RawPart(6).nan
            => result.data.windSpeed
                 = IF RawPart(6).v >= 990 THEN Num(0)
                   ELSE OrZero(MsToKnots(RawPart(6)))
       /\ ~RawPart(7).nan
            => result.data.gustSpeed
                 = IF RawPart(7).v >= 990 THEN Num(0)
                   ELSE OrZero(MsToKnots(RawPart(7)))
       /\ Truthy(RawPart(13))
            => result.data.airTemp
                 = IF RawPart(13).v >= 9990 THEN Num(0)
                   ELSE CelsiusToFahrenheit(RawPart(13))
       /\ Truthy(RawPart(14))
            => result.data.waterTemp
                 = IF RawPart(14).v >= 9990 THEN Num(0)
                   ELSE CelsiusToFahrenheit(RawPart(14))

(* " 18.0 16.5": the two temperature columns, appended to a row *)
TemperatureColumns == <<" ", "1", "8", ".", "0", " ", "1", "6", ".", "5">>

(* C17: a tabular row of exactly 13 or 14 tokens is accepted: the          *)
(* invocation ends with a record, airTemp is 0 when the row has 13 tokens, *)
(* waterTemp is 0, and every other field is what the parser reads from the *)
(* same row with temperature columns appended.                             *)
C17_ShortRowAccepted ==
  (Finished /\ isTabularFormat /\ TokenCount(rawData) \in {13, 14})
    => /\ pc = "DONE"
       /\ result.success
       /\ LET longer == ParseTabular(<<LastLine(rawData) \o TemperatureColumns>>).data
          IN  /\ result.data.datetime = longer.datetime
              /\ result.data.windDirection = longer.windDirection
              /\ result.data.windSpeed = longer.windSpeed
              /\ result.data.gustSpeed = longer.gustSpeed
              /\ result.data.pressure = longer.pressure
              /\ result.data.airTemp
                   = IF TokenCount(rawData) = 13 THEN Num(0) ELSE longer.airTemp
              /\ result.data.waterTemp = Num(0)

C17_Witness ==
  /\ pc = "DONE"
  /\ isTabularFormat
  /\ TokenCount(rawData) = 13
  /\ Eq(result.data.airTemp, 0)
  /\ Eq(result.data.waterTemp, 0)
  /\ ~Eq(result.data.windSpeed, 0)
  /\ ~Eq(result.data.pressure, 0)

(* The tabular candidate was retrieved and the probe turned it down. *)
TabularTurnedDown ==
  /\ tabularResponse # Pending
  /\ ~isTabularFormat
  /\ ~(TabularPresent /\ IsTabular(tabularResponse.body))

(* C12: the narrative source is retrieved, and the narrative parser run,   *)
(* only after the tabular source was retrieved and the probe turned it     *)
(* down or found it unavailable; the tabular parser runs only with the     *)
(* narrative source untouched; a parser's step ends the invocation, so no  *)
(* invocation runs both parsers.                                           *)
C12_TabularBeforeNarrative ==
  /\ []((pc = "FETCH_NARRATIVE" \/ narrativeResponse # Pending) => TabularTurnedDown)
  /\ [](pc = "PARSE_NARRATIVE" => (TabularTurnedDown /\ NarrativePresent))
  /\ [](pc = "PARSE_TABULAR" => (isTabularFormat /\ narrativeResponse = Pending))
  /\ [][ /\ pc \in {"PARSE_TABULAR", "PARSE_NARRATIVE"} => pc' \in {"DONE", "FAILED"}
         /\ pc' = "PARSE_NARRATIVE" => pc # "PARSE_TABULAR"
         /\ narrativeResponse' # narrativeResponse => pc = "FETCH_NARRATIVE"
         /\ tabularResponse' # tabularResponse => (pc = "INIT" /\ narrativeResponse = Pending)
       ]_vars

C12_Witness ==
  /\ pc = "DONE"
  /\ TabularPresent
  /\ tabularResponse.body # << >>
  /\ ~isTabularFormat
  /\ NarrativePresent
  /\ dataSource = "human-readable"
  /\ result.success

(* The position of a step of the invocation in the order of the code. *)
Rank(p) ==
  CASE p = "INIT" -> 0
    [] p = "PROBE_TABULAR" -> 1
    [] p = "FETCH_NARRATIVE" -> 2
    [] p = "VALIDATE" -> 3
    [] p \in {"PARSE_TABULAR", "PARSE_NARRATIVE"} -> 4
    [] p \in {"DONE", "FAILED"} -> 5

(* C13: with every retrieval answering or failing, an invocation reaches   *)
(* DONE or FAILED and stays there with its result; each source is          *)
(* retrieved at most once; the probe decides once; every step moves        *)
(* forward in the order of the code, so nothing is repeated.               *)
C13_TerminatesOnce ==
  /\ <>[]Finished
  /\ [][ /\ Finished => (pc' = pc /\ result' = result)
         /\ tabularResponse # Pending => tabularResponse' = tabularResponse
         /\ narrativeResponse # Pending => narrativeResponse' = narrativeResponse
         /\ isTabularFormat' # isTabularFormat => pc = "PROBE_TABULAR"
         /\ pc' # pc => Rank(pc') > Rank(pc)
       ]_vars

C13_Witness ==
  /\ pc = "FAILED"
  /\ tabularResponse # Pending
  /\ narrativeResponse # Pending
  /\ ~result.success

(* The token <value> kt after a marker on a line: the leftmost run of      *)
(* digits and dots that "kt" follows, looked for after the marker.         *)
KnotsToken(s, marker) ==
  LET starts == {i \in 1..Len(s) : MatchesAt(s, i, marker)}
      from   == SetMin(starts) + Len(marker)
      at     == {i \in from..Len(s) : KnotsMatchFrom(s, i).matched}
  IN  IF starts = {} THEN NoMatch
      ELSE IF at = {} THEN NoMatch
      ELSE KnotsMatchFrom(s, SetMin(at))

(* The value of that token on the first line holding the marker; 0 when    *)
(* the line or the token is missing or the token is not a number.          *)
KnotsOrZero(lines, marker) ==
  LET w == FindLine(lines, marker)
      m == IF w = 0 THEN NoMatch ELSE KnotsToken(lines[w], marker)
  IN  IF m.matched /\ ~parseFloat(m.groups[1]).nan
        THEN parseFloat(m.groups[1]) ELSE Num(0)

(* The value of the token (<deg>) on the first Wind: line; 0 without it. *)
DegreesOrZero(lines) ==
  LET w == FindLine(lines, StrWind)
      m == IF w = 0 THEN NoMatch ELSE DirMatch(lines[w])
  IN  IF m.matched THEN parseInt(m.groups[1]) ELSE Num(0)

(* C11: on a report with a valid GMT line the parser returns a record      *)
(* whatever tokens are there: windDirection is the (<deg>) token of the    *)
(* Wind: line, windSpeed its <value> kt token, gustSpeed the <value> kt    *)
(* token of the Gust: line, each 0 when its token is missing or malformed  *)
(* and none depending on another; pressure, airTemp and waterTemp are 0.   *)
C11_IndependentExtractions ==
  (parserOutput # NoResult /\ MatchingLines(parserInput) # {})
    => /\ parserOutput.success
       /\ parserOutput.data.windDirection = DegreesOrZero(parserInput)
       /\ parserOutput.data.windSpeed = KnotsOrZero(parserInput, StrWind)
       /\ parserOutput.data.gustSpeed = KnotsOrZero(parserInput, StrGust)
       /\ parserOutput.data.pressure = Num(0)
       /\ parserOutput.data.airTemp = Num(0)
       /\ parserOutput.data.waterTemp = Num(0)

(* What the claim says of a quantity that is present and not null: unless  *)
(* its code names m/s or mph, the value is returned unchanged and the unit *)
(* reported is 'kt'; and a pair reported in 'kt' normalizes to itself.     *)
PassedThroughAsKnots(q, value, unit) ==
  /\ parseUnitCode(q.unitCode) \notin {UnitMs, UnitMph}
        => (value = q.value /\ unit = UnitKt)
  /\ unit = UnitKt
        => NormalizeSpeed(value, unit) = [value |-> value, unit |-> UnitKt]

(* C15: in the record of extractWindData, a wind speed or gust whose unit  *)
(* code is a knots code, or names none of m/s, mph and kt (a km/h code),   *)
(* has its value unchanged and the unit 'kt'; normalizing a (value, 'kt')  *)
(* pair again returns the same pair.                                       *)
C15_OtherUnitsReportedAsKnots ==
  extracted.done
    => /\ Usable(properties.windSpeed)
            => PassedThroughAsKnots(properties.windSpeed, extracted.data.windSpeed,
                                    extracted.data.windSpeedUnit)
       /\ Usable(properties.windGust)
            => PassedThroughAsKnots(properties.windGust, extracted.data.windGust.value,
                                    extracted.data.windGustUnit)

InFlight(p) == {k \in 1..p.issued : p.status[k] = "inFlight"}

Succeeded(p) == {k \in 1..p.issued : p.status[k] = "success"}

Latest(S) == CHOOSE m \in S : \A n \in S : n <= m

(* C18: in the dashboard, loading is true whenever a wind-data request is  *)
(* still in flight, and once every request has been answered the windData  *)
(* shown is the data of the most recently issued request that succeeded.   *)
C18_LoadingAndLatestData ==
  /\ InFlight(page) # {} => page.loading
  /\ (InFlight(page) = {} /\ Succeeded(page) # {})
        => page.windData = Latest(Succeeded(page))

(* The result of an invocation that runs alone and is answered t by the    *)
(* tabular source and, if it asks, n by the narrative source.              *)
RunAlone(t, n) ==
  LET probed    == AfterProbe(AfterFetchTabular(Started, t))
      fetched   == IF probed.pc = "FETCH_NARRATIVE"
                     THEN AfterFetchNarrative(probed, n) ELSE probed
      validated == IF fetched.pc = "VALIDATE" THEN AfterValidate(fetched) ELSE fetched
      parsed    == IF validated.pc \in {"PARSE_TABULAR", "PARSE_NARRATIVE"}
                     THEN AfterParse(validated) ELSE validated
  IN  parsed.result

(* C14: of two invocations interleaved in any order, each ends with the    *)
(* result it would have alone on the answers it retrieved itself, and a    *)
(* step of one leaves everything of the other as it was.                   *)
C14_InvocationsIndependent ==
  /\ [](\A i \in Invocations :
          calls[i].pc \in {"DONE", "FAILED"}
            => calls[i].result
                 = RunAlone(calls[i].tabularResponse, calls[i].narrativeResponse))
  /\ [][\E i \in Invocations : \A j \in Invocations \ {i} : calls'[j] = calls[j]]_vars

(* One invocation on the tabular path and one on the narrative path, with  *)
(* different answers, both ended with a record.                            *)
C14_Witness ==
  /\ calls[1].pc = "DONE"
  /\ calls[2].pc = "DONE"
  /\ calls[1].isTabularFormat
  /\ ~calls[2].isTabularFormat
  /\ calls[2].narrativeResponse # Pending
  /\ calls[1].result # calls[2].result


=============================================================================
